---- MODULE Spec2Model ----
(***************************************************************************)
(* oh-my-shell (src/Problem_1/src/main.rs): the read-eval loop, the        *)
(* single-command path and the pipeline orchestrator handle_pipes, with    *)
(* the descriptor tables of the shell and of every child it forks.         *)
(*                                                                         *)
(* A descriptor table maps descriptor numbers to open-file descriptions    *)
(* (the terminal, one end of a pipe, a file).  fork copies the table,      *)
(* dup2/close edit it, exec keeps it, process exit clears it.  A pipe end  *)
(* is "open" while any live process has a descriptor for it; that is what  *)
(* decides end-of-stream for a reader and EPIPE for a writer.              *)
(*                                                                         *)
(* Spec runs the lines (Vec<Command>) through the handlers.  ParseSpec is  *)
(* the front half of main's loop: the characters typed at the prompt, the  *)
(* exit and cd tests, parse_input and the handler chosen for its result.   *)
(***************************************************************************)
EXTENDS Integers, Sequences, FiniteSets, TLC

\* ---- bounds of the model ------------------------------------------------
MaxStages == 3          \* longest pipeline a line may hold
MaxLines == 2           \* lines read before the model stops reading
MaxRedir == 1           \* stages of one line that carry a file redirection
PipeCap == 1            \* bytes a pipe buffers before a write blocks
MaxWrite == 2           \* bytes a producing program writes before it exits
MaxPieces == 5          \* pieces of text typed on one line at the prompt

\* ---- program constants --------------------------------------------------
PanicExit == 101        \* exit status of a Rust process whose main thread panics
SIGPIPE == 13

\* Descriptor numbers.  Every pipe() of MaxLines lines and one redirection
\* file fit, so the table never runs out (RLIMIT_NOFILE is far above what the
\* model opens).
MaxFd == 4 + 2 * MaxLines * (MaxStages - 1)
Fds == 0 .. (MaxFd - 1)
NoFd == -1              \* Option<RawFd>::None
MaxPipes == MaxLines * (MaxStages - 1)
Pipes == 1 .. MaxPipes
Stages == 0 .. (MaxStages - 1)

\* ---- open-file descriptions ----------------------------------------------
Closed == [k |-> "closed", n |-> 0]
Tty(n) == [k |-> "tty", n |-> n]
REnd(p) == [k |-> "r", n |-> p]
WEnd(p) == [k |-> "w", n |-> p]
File(path) == [k |-> "file", n |-> path]

\* ---- Command (main.rs:20-25); paths are abstracted to small numbers ------
NoPath == 0             \* Option<String>::None
InPath == 1
OutPath == 2
Commands == [input_file : {NoPath, InPath}, output_file : {NoPath, OutPath}]
Plain == [input_file |-> NoPath, output_file |-> NoPath]

\* The Vec<Command> of a parsed line: one Command is a single-command shape,
\* two or more are InputType::Pipe.
Lines ==
    { l \in UNION { [1 .. n -> Commands] : n \in 1 .. MaxStages } :
        Cardinality({ s \in DOMAIN l : l[s] # Plain }) <= MaxRedir }

\* ---- descriptor-table operations -----------------------------------------
EmptyTable == [fd \in Fds |-> Closed]
ShellTable == [fd \in Fds |-> IF fd <= 2 THEN Tty(fd) ELSE Closed]
Free(t) == { fd \in Fds : t[fd] = Closed }
Lowest(S) == CHOOSE x \in S : \A y \in S : x <= y
Dup2(t, old, new) == [t EXCEPT ![new] = t[old]]
Close(t, fd) == [t EXCEPT ![fd] = Closed]
Holds(t, obj) == \E fd \in Fds : t[fd] = obj
PipeEnds(t) == { fd \in Fds : t[fd].k \in {"r", "w"} }

\* Option::or
OrElse(a, b) == IF a # NoPath THEN a ELSE b

\* ---- wait statuses and the lines printed for them ------------------------
NoStatus == [t |-> "none", code |-> 0]
Exited(c) == [t |-> "Exited", code |-> c]
Signaled(s) == [t |-> "Signaled", code |-> s]

VARIABLES
    pc,         \* where the shell process is
    nLines,     \* lines read so far
    line,       \* the Vec<Command> of the line being executed
    i,          \* handle_pipes: index of the creation loop
    prev_pipe,  \* handle_pipes: Option<RawFd>
    r, w,       \* handle_pipes: the pipe of this iteration
    children,   \* handle_pipes: Vec<Pid> (handle_single_command: the one child)
    results,    \* handle_pipes: Vec<WaitStatus>
    printed,    \* status lines printed for the current line
    fdt,        \* descriptor table of the shell
    buf,        \* bytes buffered in each pipe
    pipeOf,     \* the pipe created in iteration i of the current line (0: none)
    cpc,        \* each child: absent, pipe_child, single_child, running, exited, reaped, shell_loop
    cfdt,       \* each child: descriptor table
    cloc,       \* each child: its copy of prev_pipe, r, w at fork
    ckind,      \* each child: what the exec'ed program does
    cwrote,     \* each child: bytes written so far
    cstatus,    \* each child: termination status
    cfail,      \* each child: it failed on its way to exec (dup2, open, create or execvp)
    execSnap,   \* each child: its descriptor table at the moment of exec
    trace,      \* fork and wait events of the current line, in order
    typed,      \* main: the characters of the line being typed at the prompt
    nTyped,     \* main: how many pieces of text the user has typed on this line
    ppc,        \* main: typing (at read_line), done (line handled), exited (after break)
    turn        \* main: what the loop body did with the line it read

execVars == << pc, nLines, line, i, prev_pipe, r, w, children, results, printed, fdt,
               buf, pipeOf, cpc, cfdt, cloc, ckind, cwrote, cstatus, cfail, execSnap, trace >>
parseVars == << typed, nTyped, ppc, turn >>
vars == << execVars, parseVars >>

parentVars == << pc, nLines, line, i, prev_pipe, r, w, children, results, printed, fdt, trace >>
childVars == << cpc, cfdt, cloc, ckind, cwrote, cstatus, cfail, execSnap >>

NoLoc == [prev |-> NoFd, r |-> NoFd, w |-> NoFd]
N == Len(line)

\* ---- what the parser builds (main.rs:10-25) ------------------------------
\* A String is the sequence of its characters. Option<String>::None is the
\* empty sequence: a path is always a token, and no token is empty.
NoneStr == << >>

\* struct Command
Command(program, args, input_file, output_file) ==
    [program |-> program, args |-> args, input_file |-> input_file, output_file |-> output_file]

\* enum InputType: the variant, the Command(s) it holds and the Strings it carries.
InputType(shape, cmds, inf, outf) ==
    [shape |-> shape, cmds |-> cmds, inf |-> inf, outf |-> outf]

\* Option<InputType>::None
NoInput == InputType("None", << >>, NoneStr, NoneStr)

\* What one turn of main's loop did: exit, cd (with the directory given to
\* set_current_dir), run (parsed, with the handler called and its two file
\* arguments) or none (parse_input returned None); msgs is what went to stderr.
NoOutcome ==
    [kind |-> "-", chdir |-> NoneStr, parsed |-> NoInput, msgs |-> << >>,
     handler |-> "-", hin |-> NoneStr, hout |-> NoneStr]

Init ==
    /\ pc = "prompt"
    /\ nLines = 0
    /\ line = << >>
    /\ i = 0
    /\ prev_pipe = NoFd
    /\ r = NoFd
    /\ w = NoFd
    /\ children = << >>
    /\ results = << >>
    /\ printed = << >>
    /\ fdt = ShellTable
    /\ buf = [p \in Pipes |-> 0]
    /\ pipeOf = [s \in Stages |-> 0]
    /\ cpc = [s \in Stages |-> "absent"]
    /\ cfdt = [s \in Stages |-> EmptyTable]
    /\ cloc = [s \in Stages |-> NoLoc]
    /\ ckind = [s \in Stages |-> "-"]
    /\ cwrote = [s \in Stages |-> 0]
    /\ cstatus = [s \in Stages |-> NoStatus]
    /\ cfail = [s \in Stages |-> FALSE]
    /\ execSnap = [s \in Stages |-> EmptyTable]
    /\ trace = << >>
    /\ typed = << >>
    /\ nTyped = 0
    /\ ppc = "typing"
    /\ turn = NoOutcome


\* ---- pipes ---------------------------------------------------------------
AnyHolds(obj) == Holds(fdt, obj) \/ \E s \in Stages : Holds(cfdt[s], obj)
\* The kernel gives a new pipe an identity no live descriptor refers to.
NewPipe == Lowest({ p \in Pipes : ~AnyHolds(REnd(p)) /\ ~AnyHolds(WEnd(p)) })

\* pipe() at main.rs:247-254: the two lowest free descriptors, read end first;
\* no pipe for the last stage.
MakePipe(t, idx, n) ==
    IF idx < n - 1
    THEN LET rfd == Lowest(Free(t))
             wfd == Lowest(Free(t) \ {rfd})
         IN [t |-> [t EXCEPT ![rfd] = REnd(NewPipe), ![wfd] = WEnd(NewPipe)],
             r |-> rfd, w |-> wfd, p |-> NewPipe]
    ELSE [t |-> t, r |-> NoFd, w |-> NoFd, p |-> 0]

\* ---- main.rs:107-121 and 192-206: the shape of a one-command line and the
\* overrides main hands to handle_single_command for it ---------------------
ShapeOf(cmd) ==
    IF cmd.input_file # NoPath /\ cmd.output_file = NoPath THEN "InputRedirect"
    ELSE IF cmd.input_file = NoPath /\ cmd.output_file # NoPath THEN "OutputRedirect"
    ELSE IF cmd.input_file # NoPath /\ cmd.output_file # NoPath THEN "BiRedirect"
    ELSE "SingleCommand"

SingleOverrides(cmd) ==
    LET shape == ShapeOf(cmd)
    IN [input_file |-> IF shape \in {"InputRedirect", "BiRedirect"}
                       THEN cmd.input_file ELSE NoPath,
        output_file |-> IF shape \in {"OutputRedirect", "BiRedirect"}
                        THEN cmd.output_file ELSE NoPath]

\* ---- main loop: read a line and dispatch on its shape (main.rs:166-216) --
ReadLine ==
    /\ pc = "prompt"
    /\ nLines < MaxLines
    /\ \E l \in Lines :
        /\ line' = l
        /\ pc' = IF Len(l) = 1 THEN "single" ELSE "loop"
    /\ nLines' = nLines + 1
    /\ i' = 0
    /\ prev_pipe' = NoFd
    /\ r' = NoFd
    /\ w' = NoFd
    /\ children' = << >>
    /\ results' = << >>
    /\ printed' = << >>
    /\ trace' = << >>
    /\ pipeOf' = [s \in Stages |-> 0]
    /\ cpc' = [s \in Stages |-> "absent"]
    /\ cstatus' = [s \in Stages |-> NoStatus]
    /\ cfail' = [s \in Stages |-> FALSE]
    /\ execSnap' = [s \in Stages |-> EmptyTable]
    /\ UNCHANGED << parseVars, fdt, buf, cfdt, cloc, ckind, cwrote >>

\* The line printed for one WaitStatus (main.rs:227-233, 313-321).
StatusLine(res) ==
    IF res.st.t = "Exited" THEN [msg |-> "terminated", pid |-> res.pid, val |-> res.st.code]
    ELSE IF res.st.t = "Signaled" THEN [msg |-> "signal", pid |-> res.pid, val |-> res.st.code]
    ELSE [msg |-> "unexpected", pid |-> -1, val |-> 0]

\* A panic of the shell itself (an expect on Err): the process is gone and
\* the kernel closes its descriptors.
ShellPanics ==
    /\ pc' = "crashed"
    /\ fdt' = EmptyTable

\* ---- handle_single_command (main.rs:220-238) -----------------------------
SingleFork ==
    /\ pc = "single"
    /\ pc' = "single_wait"
    /\ children' = << 0 >>
    /\ trace' = Append(trace, [e |-> "fork", s |-> 0])
    /\ cpc' = [cpc EXCEPT ![0] = "single_child"]
    /\ cfdt' = [cfdt EXCEPT ![0] = fdt]
    /\ UNCHANGED << parseVars, nLines, line, i, prev_pipe, r, w, results, printed, fdt, buf, pipeOf,
                    cloc, ckind, cwrote, cstatus, cfail, execSnap >>

SingleForkFail ==
    /\ pc = "single"
    /\ pc' = "prompt"
    /\ trace' = Append(trace, [e |-> "forkerr", s |-> 0])
    /\ UNCHANGED << parseVars, nLines, line, i, prev_pipe, r, w, children, results, printed, fdt, buf,
                    pipeOf, childVars >>

SingleWait ==
    /\ pc = "single_wait"
    /\ cpc[children[1]] = "exited"
    /\ printed' = << StatusLine([pid |-> children[1], st |-> cstatus[children[1]]]) >>
    /\ trace' = Append(trace, [e |-> "wait", s |-> children[1]])
    /\ cpc' = [cpc EXCEPT ![children[1]] = "reaped"]
    /\ pc' = "prompt"
    /\ UNCHANGED << parseVars, nLines, line, i, prev_pipe, r, w, children, results, fdt, buf, pipeOf,
                    cfdt, cloc, ckind, cwrote, cstatus, cfail, execSnap >>

SingleWaitFail ==
    /\ pc = "single_wait"
    /\ ShellPanics
    /\ trace' = Append(trace, [e |-> "waiterr", s |-> children[1]])
    /\ UNCHANGED << parseVars, nLines, line, i, prev_pipe, r, w, children, results, printed, buf,
                    pipeOf, childVars >>

\* ---- handle_pipes, the shell's side (main.rs:240-323) --------------------
\* main.rs:290-292: the shell closes its copy of the write end.
ParentCloseNoop(t, wfd) == t
ParentCloseAfterDup(t, wfd) == IF wfd # NoFd THEN Close(Dup2(t, wfd, 1), wfd) ELSE t
ParentClose(t, wfd) == IF wfd # NoFd THEN Close(t, wfd) ELSE t

\* main.rs:306-307: the next child to wait for, in creation order
\* (done = number of statuses already collected).
WaitTargetReversed(ch, done) == ch[Len(ch) - done]
WaitTarget(ch, done) == ch[done + 1]

\* main.rs:312-322: one line per collected status.
ReportLinesExitedOnly(res) ==
    LET keep == SelectSeq(res, LAMBDA x : x.st.t = "Exited")
    IN [k \in 1 .. Len(keep) |-> StatusLine(keep[k])]
ReportLinesUntilFailure(res) ==
    LET bad == { k \in 1 .. Len(res) : res[k].st # Exited(0) }
        upto == IF bad = {} THEN Len(res) ELSE Lowest(bad) - 1
    IN [k \in 1 .. upto |-> StatusLine(res[k])]
ReportLines(res) == [k \in 1 .. Len(res) |-> StatusLine(res[k])]

\* main.rs:247-257: pipe() for a non-last stage, then fork() returns Ok: the
\* child starts with a copy of the shell's table and of prev_pipe, r, w.
LoopFork ==
    /\ pc = "loop"
    /\ i < N
    /\ LET mk == MakePipe(fdt, i, N)
       IN /\ fdt' = mk.t
          /\ r' = mk.r
          /\ w' = mk.w
          /\ pipeOf' = [pipeOf EXCEPT ![i] = mk.p]
          /\ buf' = IF mk.p # 0 THEN [buf EXCEPT ![mk.p] = 0] ELSE buf
          /\ cfdt' = [cfdt EXCEPT ![i] = mk.t]
          /\ cloc' = [cloc EXCEPT ![i] = [prev |-> prev_pipe, r |-> mk.r, w |-> mk.w]]
    /\ cpc' = [cpc EXCEPT ![i] = "pipe_child"]
    /\ trace' = Append(trace, [e |-> "fork", s |-> i])
    /\ pc' = "forked"
    /\ UNCHANGED << parseVars, nLines, line, i, prev_pipe, children, results, printed,
                    ckind, cwrote, cstatus, cfail, execSnap >>

\* main.rs:247-256, 296: pipe(), then fork() returns Err: a message, and the
\* loop goes on to the next stage; the pipe just made stays open.
LoopForkFail ==
    /\ pc = "loop"
    /\ i < N
    /\ LET mk == MakePipe(fdt, i, N)
       IN /\ fdt' = mk.t
          /\ pipeOf' = [pipeOf EXCEPT ![i] = mk.p]
          /\ buf' = IF mk.p # 0 THEN [buf EXCEPT ![mk.p] = 0] ELSE buf
    /\ trace' = Append(trace, [e |-> "forkerr", s |-> i])
    /\ i' = i + 1
    /\ UNCHANGED << parseVars, pc, nLines, line, prev_pipe, r, w, children, results, printed, childVars >>

\* main.rs:281-295: the Parent arm.
ParentAfterFork ==
    /\ pc = "forked"
    /\ children' = Append(children, i)
    /\ fdt' = ParentClose(fdt, w)
    /\ prev_pipe' = r
    /\ r' = NoFd
    /\ w' = NoFd
    /\ i' = i + 1
    /\ pc' = "loop"
    /\ UNCHANGED << parseVars, nLines, line, results, printed, buf, pipeOf, trace, childVars >>

\* main.rs:299-301: after the loop.
AfterLoop ==
    /\ pc = "loop"
    /\ i = N
    /\ fdt' = IF prev_pipe # NoFd THEN Close(fdt, prev_pipe) ELSE fdt
    /\ pc' = "wait"
    /\ UNCHANGED << parseVars, nLines, line, i, prev_pipe, r, w, children, results, printed, buf,
                    pipeOf, trace, childVars >>

\* main.rs:306-309: waitpid blocks until that child has terminated.
WaitChild ==
    /\ pc = "wait"
    /\ Len(results) < Len(children)
    /\ LET c == WaitTarget(children, Len(results))
       IN /\ cpc[c] = "exited"
          /\ results' = Append(results, [pid |-> c, st |-> cstatus[c]])
          /\ trace' = Append(trace, [e |-> "wait", s |-> c])
          /\ cpc' = [cpc EXCEPT ![c] = "reaped"]
    /\ UNCHANGED << parseVars, pc, nLines, line, i, prev_pipe, r, w, children, printed, fdt, buf,
                    pipeOf, cfdt, cloc, ckind, cwrote, cstatus, cfail, execSnap >>

\* main.rs:307: waitpid returns Err and the expect panics.
WaitFail ==
    /\ pc = "wait"
    /\ Len(results) < Len(children)
    /\ ShellPanics
    /\ trace' = Append(trace, [e |-> "waiterr", s |-> WaitTarget(children, Len(results))])
    /\ UNCHANGED << parseVars, nLines, line, i, prev_pipe, r, w, children, results, printed, buf,
                    pipeOf, childVars >>

\* main.rs:312-323: print every collected status and return to the prompt.
Report ==
    /\ pc = "wait"
    /\ Len(results) = Len(children)
    /\ printed' = ReportLines(results)
    /\ pc' = "prompt"
    /\ UNCHANGED << parseVars, nLines, line, i, prev_pipe, r, w, children, results, fdt, buf,
                    pipeOf, trace, childVars >>

\* ---- the child's side ----------------------------------------------------
\* main.rs:265-275: wire the copied pipe descriptors onto 0 and 1 and close
\* the originals and the read end of this stage's own pipe.
ChildWireCrossed(t, loc) ==
    LET t1 == IF loc.prev # NoFd THEN Close(Dup2(t, loc.prev, 1), loc.prev) ELSE t
        t2 == IF loc.w # NoFd THEN Close(Dup2(t1, loc.w, 0), loc.w) ELSE t1
    IN IF loc.r # NoFd THEN Close(t2, loc.r) ELSE t2
ChildWire(t, loc) ==
    LET t1 == IF loc.prev # NoFd THEN Close(Dup2(t, loc.prev, 0), loc.prev) ELSE t
        t2 == IF loc.w # NoFd THEN Close(Dup2(t1, loc.w, 1), loc.w) ELSE t1
    IN IF loc.r # NoFd THEN Close(t2, loc.r) ELSE t2

\* main.rs:152-153, 156-157: File::open / File::create takes the lowest free
\* descriptor, dup2 copies it onto the target, and the File is dropped
\* (closed) at the end of the block.
OpenOnto(t, path, target) ==
    LET fd == Lowest(Free(t))
    IN Close(Dup2([t EXCEPT ![fd] = File(path)], fd, target), fd)

\* What a failed open, create, dup2 or execvp does to the process: the expect
\* panics (main.rs:152-160).
LaunchFailureReturns == "return"
LaunchFailure == "panic"

\* The points at which the host may fail a child on its way to exec: a dup2
\* of the pipe wiring in handle_pipes ("wire"), and in run_single_command the
\* open, the create, a dup2 or the execvp.
FailPoints == {"none", "wire", "open", "create", "dup2", "exec"}

\* run_single_command (main.rs:138-161): the override, or else the Command's
\* own path, decides each redirection; then execvp.
run_single_command(t, cmd, input_file, output_file, fail) ==
    LET infile == OrElse(input_file, cmd.input_file)
        outfile == OrElse(output_file, cmd.output_file)
        t1 == IF infile # NoPath THEN OpenOnto(t, infile, 0) ELSE t
        t2 == IF outfile # NoPath THEN OpenOnto(t1, outfile, 1) ELSE t1
        failed == \/ fail = "open" /\ infile # NoPath
                  \/ fail = "create" /\ outfile # NoPath
                  \/ fail = "dup2" /\ (infile # NoPath \/ outfile # NoPath)
                  \/ fail = "exec"
    IN [out |-> IF failed THEN LaunchFailure ELSE "exec", t |-> t2]

\* What the exec'ed program does: leave at once, produce bytes on standard
\* output, or consume standard input to end-of-stream.
Kinds == {"quit", "src", "sink"}

\* Once the shell has panicked the session is over: what its orphans do
\* afterwards is not followed.
SessionAlive == pc # "crashed"

\* Process termination: the kernel closes every descriptor of the process.
Terminate(s, st) ==
    /\ cpc' = [cpc EXCEPT ![s] = "exited"]
    /\ cfdt' = [cfdt EXCEPT ![s] = EmptyTable]
    /\ cloc' = [cloc EXCEPT ![s] = NoLoc]
    /\ ckind' = [ckind EXCEPT ![s] = "-"]
    /\ cwrote' = [cwrote EXCEPT ![s] = 0]
    /\ cstatus' = [cstatus EXCEPT ![s] = st]

\* A forked child up to its exec: main.rs:257-279 for a pipeline stage,
\* main.rs:222-224 for the single-command child.
ChildExec(s) ==
    /\ SessionAlive
    /\ cpc[s] \in {"pipe_child", "single_child"}
    /\ \E fail \in FailPoints, kind \in Kinds :
        LET piped == cpc[s] = "pipe_child"
            wired == IF piped THEN ChildWire(cfdt[s], cloc[s]) ELSE cfdt[s]
            ovr == IF piped THEN Plain ELSE SingleOverrides(line[s + 1])
            res == run_single_command(wired, line[s + 1], ovr.input_file, ovr.output_file, fail)
            \* main.rs:266, 270: the expect on a failed dup2 panics
            wirefail == piped /\ fail = "wire" /\ (cloc[s].prev # NoFd \/ cloc[s].w # NoFd)
            outcome == IF wirefail THEN "panic" ELSE res.out
        IN IF outcome = "exec"
           THEN /\ cpc' = [cpc EXCEPT ![s] = "running"]
                /\ cfdt' = [cfdt EXCEPT ![s] = res.t]
                /\ cloc' = [cloc EXCEPT ![s] = NoLoc]
                /\ ckind' = [ckind EXCEPT ![s] = kind]
                /\ execSnap' = [execSnap EXCEPT ![s] = res.t]
                /\ UNCHANGED << cwrote, cstatus, cfail >>
           ELSE IF outcome = "panic"
           THEN /\ Terminate(s, Exited(PanicExit))
                /\ cfail' = [cfail EXCEPT ![s] = TRUE]
                /\ UNCHANGED execSnap
           ELSE IF piped
           THEN \* run_single_command returned: std::process::exit(0), main.rs:279
                /\ Terminate(s, Exited(0))
                /\ cfail' = [cfail EXCEPT ![s] = TRUE]
                /\ UNCHANGED execSnap
           ELSE \* run_single_command returned in the single-command child: the
                \* match arm ends and the child is back in main's loop
                /\ cpc' = [cpc EXCEPT ![s] = "shell_loop"]
                /\ cfail' = [cfail EXCEPT ![s] = TRUE]
                /\ UNCHANGED << cfdt, cloc, ckind, cwrote, cstatus, execSnap >>
    /\ UNCHANGED << parseVars, parentVars, buf, pipeOf >>

\* ---- the exec'ed programs ------------------------------------------------
\* A program that exits without touching its streams, with any status.
ProgQuit(s) ==
    /\ SessionAlive
    /\ cpc[s] = "running"
    /\ ckind[s] = "quit"
    /\ \E code \in {0, 1} : Terminate(s, Exited(code))
    /\ UNCHANGED << parseVars, parentVars, buf, pipeOf, cfail, execSnap >>

\* A producer has written all it had.
ProgSrcDone(s) ==
    /\ SessionAlive
    /\ cpc[s] = "running"
    /\ ckind[s] = "src"
    /\ cwrote[s] = MaxWrite
    /\ Terminate(s, Exited(0))
    /\ UNCHANGED << parseVars, parentVars, buf, pipeOf, cfail, execSnap >>

\* write(1, ...) to the terminal or a file never blocks: everything the
\* program has left goes out.
ProgWrite(s) ==
    /\ SessionAlive
    /\ cpc[s] = "running"
    /\ ckind[s] = "src"
    /\ cwrote[s] < MaxWrite
    /\ cfdt[s][1].k # "w"
    /\ cwrote' = [cwrote EXCEPT ![s] = MaxWrite]
    /\ UNCHANGED << parseVars, parentVars, buf, pipeOf, cpc, cfdt, cloc, ckind, cstatus, cfail, execSnap >>

\* write(1, ...) to a pipe some process can still read: it blocks while the
\* pipe is full.
ProgWritePipe(s) ==
    /\ SessionAlive
    /\ cpc[s] = "running"
    /\ ckind[s] = "src"
    /\ cwrote[s] < MaxWrite
    /\ cfdt[s][1].k = "w"
    /\ AnyHolds(REnd(cfdt[s][1].n))
    /\ buf[cfdt[s][1].n] < PipeCap
    /\ buf' = [buf EXCEPT ![cfdt[s][1].n] = @ + 1]
    /\ cwrote' = [cwrote EXCEPT ![s] = @ + 1]
    /\ UNCHANGED << parseVars, parentVars, pipeOf, cpc, cfdt, cloc, ckind, cstatus, cfail, execSnap >>

\* write(1, ...) to a pipe whose read end nobody holds: SIGPIPE.
ProgWriteBroken(s) ==
    /\ SessionAlive
    /\ cpc[s] = "running"
    /\ ckind[s] = "src"
    /\ cwrote[s] < MaxWrite
    /\ cfdt[s][1].k = "w"
    /\ ~AnyHolds(REnd(cfdt[s][1].n))
    /\ Terminate(s, Signaled(SIGPIPE))
    /\ UNCHANGED << parseVars, parentVars, buf, pipeOf, cfail, execSnap >>

\* read(0, ...) takes a byte out of the pipe.
ProgRead(s) ==
    /\ SessionAlive
    /\ cpc[s] = "running"
    /\ ckind[s] = "sink"
    /\ cfdt[s][0].k = "r"
    /\ buf[cfdt[s][0].n] > 0
    /\ buf' = [buf EXCEPT ![cfdt[s][0].n] = @ - 1]
    /\ UNCHANGED << parseVars, parentVars, pipeOf, childVars >>

\* read(0, ...) returns end-of-stream: an empty pipe whose write end nobody
\* holds, a file read to its end, the terminal at end of input.
ProgReadEof(s) ==
    /\ SessionAlive
    /\ cpc[s] = "running"
    /\ ckind[s] = "sink"
    /\ \/ cfdt[s][0].k # "r"
       \/ /\ cfdt[s][0].k = "r"
          /\ buf[cfdt[s][0].n] = 0
          /\ ~AnyHolds(WEnd(cfdt[s][0].n))
    /\ Terminate(s, Exited(0))
    /\ UNCHANGED << parseVars, parentVars, buf, pipeOf, cfail, execSnap >>

Child(s) ==
    \/ ChildExec(s)
    \/ ProgQuit(s)
    \/ ProgSrcDone(s)
    \/ ProgWrite(s)
    \/ ProgWritePipe(s)
    \/ ProgWriteBroken(s)
    \/ ProgRead(s)
    \/ ProgReadEof(s)

Shell ==
    \/ ReadLine
    \/ SingleFork
    \/ SingleForkFail
    \/ SingleWait
    \/ SingleWaitFail
    \/ LoopFork
    \/ LoopForkFail
    \/ ParentAfterFork
    \/ AfterLoop
    \/ WaitChild
    \/ WaitFail
    \/ Report

Next == Shell \/ \E s \in Stages : Child(s)

Spec == Init /\ [][Next]_vars

\* The steps the shell takes by itself: everything but a failing fork or
\* waitpid and the arrival of a new line.
ShellProgress ==
    \/ SingleFork
    \/ SingleWait
    \/ LoopFork
    \/ ParentAfterFork
    \/ AfterLoop
    \/ WaitChild
    \/ Report

\* ---- vocabulary of the properties ----------------------------------------
ForkedOk(s) == \E k \in 1 .. Len(trace) : trace[k] = [e |-> "fork", s |-> s]
ForkFailed(s) == \E k \in 1 .. Len(trace) : trace[k] = [e |-> "forkerr", s |-> s]
AllForksOk == \A s \in Stages : ~ForkFailed(s)
ForksOkUpTo(s) == \A q \in 0 .. s : ~ForkFailed(q)
NoRedirection == \A k \in 1 .. N : line[k] = Plain
\* Stage s has called exec (its table then always holds the terminal on 2).
Execd(s) == execSnap[s] # EmptyTable
Terminated(s) == cpc[s] \in {"exited", "reaped"}
\* The streams the pipeline gives stage s.
PipeStdin(s) == IF s = 0 THEN Tty(0) ELSE REnd(pipeOf[s - 1])
PipeStdout(s) == IF s = N - 1 THEN Tty(1) ELSE WEnd(pipeOf[s])
\* The shell has run the Parent arm of iteration s.
ParentDoneWith(s) == i > s
\* read(0) of stage s would block: an empty pipe somebody can still write.
ReadBlocks(s) ==
    /\ cfdt[s][0].k = "r"
    /\ buf[cfdt[s][0].n] = 0
    /\ AnyHolds(WEnd(cfdt[s][0].n))

\* C1: in a pipeline of N >= 2 stages whose forks succeed and whose stages
\* carry no file redirection, every stage calls exec with the read end of the
\* previous stage's pipe on descriptor 0 (the shell's own standard input for
\* stage 0) and the write end of its own pipe on descriptor 1 (the shell's own
\* standard output for the last stage).
C1_StageWiring ==
    (N >= 2 /\ NoRedirection) =>
        \A s \in 0 .. N - 1 :
            (Execd(s) /\ ForksOkUpTo(s)) =>
                /\ execSnap[s][0] = PipeStdin(s)
                /\ execSnap[s][1] = PipeStdout(s)

\* A three-stage pipeline without redirection, every fork successful, on the
\* second line (so the descriptor numbers differ from the first line's), all
\* three stages past exec.
C1_Witness ==
    /\ N = 3
    /\ nLines = 2
    /\ NoRedirection
    /\ AllForksOk
    /\ \A s \in 0 .. 2 : Execd(s)

\* C2: once handle_pipes has created the stages and waits, the shell holds no
\* descriptor of any pipe (here for pipelines whose forks all succeeded).
C2_ParentHoldsNoPipe ==
    (pc = "wait" /\ AllForksOk) => PipeEnds(fdt) = {}

\* C3: a stage of a pipeline calls exec holding pipe ends on descriptors 0 and
\* 1 only (here for pipelines whose forks all succeeded).
C3_ChildHoldsOnlyItsEnds ==
    (N >= 2 /\ AllForksOk) =>
        \A s \in 0 .. N - 1 : Execd(s) => PipeEnds(execSnap[s]) \subseteq {0, 1}

\* C4: in a pipeline whose forks succeed, once the shell has closed its copy
\* after creating stage s, only stage s holds the write end of pipe s, and
\* after exec only as descriptor 1; when stage s has terminated nobody holds
\* it, and a read by stage s+1 on that pipe does not block (it returns what is
\* buffered, then end-of-stream).
C4_WriteEndOwner ==
    (N >= 2 /\ AllForksOk) =>
        \A s \in 0 .. N - 2 :
            (pipeOf[s] # 0 /\ ParentDoneWith(s)) =>
                /\ ~Holds(fdt, WEnd(pipeOf[s]))
                /\ \A c \in Stages \ {s} : ~Holds(cfdt[c], WEnd(pipeOf[s]))
                /\ cpc[s] = "running" =>
                       \A fd \in Fds : cfdt[s][fd] = WEnd(pipeOf[s]) => fd = 1
                /\ Terminated(s) =>
                       /\ ~AnyHolds(WEnd(pipeOf[s]))
                       /\ (cpc[s + 1] = "running" /\ cfdt[s + 1][0] = REnd(pipeOf[s]))
                              => ~ReadBlocks(s + 1)

\* Stage 0 wrote into its pipe and has terminated; stage 1 is a running
\* consumer on that pipe, which is drained: its next read is end-of-stream.
C4_Witness ==
    /\ N >= 2
    /\ AllForksOk
    /\ pipeOf[0] # 0
    /\ ParentDoneWith(0)
    /\ Terminated(0)
    /\ cstatus[0] = Exited(0)
    /\ cpc[1] = "running"
    /\ ckind[1] = "sink"
    /\ cfdt[1][0] = REnd(pipeOf[0])
    /\ buf[pipeOf[0]] = 0

\* C5: executing a pipeline never hangs.  The programs of the model take
\* finitely many steps and terminate on end-of-stream and on a broken pipe,
\* so the pipeline hangs exactly when it reaches a state where handle_pipes
\* has not returned and neither the shell nor any child can take a step: the
\* shell blocked in waitpid on a child that is blocked for ever.
C5_NeverStuck ==
    (pc \in {"loop", "forked", "wait"}) =>
        ENABLED (ShellProgress \/ \E s \in Stages : Child(s))

\* The stages of the fork events, and of the wait events, in the order they
\* happened.
IsFork(ev) == ev.e \in {"fork", "forkerr"}
IsWait(ev) == ev.e \in {"wait", "waiterr"}
CreatedSeq == SelectSeq(trace, LAMBDA ev : ev.e = "fork")
WaitedSeq == SelectSeq(trace, LAMBDA ev : IsWait(ev))
Created == { CreatedSeq[k].s : k \in 1 .. Len(CreatedSeq) }
WaitsFor(s) == Cardinality({ k \in 1 .. Len(trace) : IsWait(trace[k]) /\ trace[k].s = s })
LinesFor(s) == { k \in 1 .. Len(printed) : printed[k].pid = s }

\* C6: in handle_pipes no waitpid is called before the last fork attempt of
\* the pipeline, and the children are waited for in the order they were
\* created.
C6_WaitAfterCreation ==
    N >= 2 =>
        /\ \A a, b \in 1 .. Len(trace) : (a < b /\ IsWait(trace[a])) => ~IsFork(trace[b])
        /\ (\E k \in 1 .. Len(trace) : IsWait(trace[k])) => i = N
        /\ Len(WaitedSeq) <= Len(CreatedSeq)
        /\ \A k \in 1 .. Len(WaitedSeq) : WaitedSeq[k].s = CreatedSeq[k].s

\* Three children created, the first two already waited for.
C6_Witness ==
    /\ N = 3
    /\ Len(CreatedSeq) = 3
    /\ Len(WaitedSeq) = 2
    /\ pc = "wait"

\* C7: when control is back at the prompt after a line, every child created
\* for the line has been waited for exactly once and has exactly one status
\* line, which shows its own termination status; nothing else was printed.
C7_EveryChildReported ==
    (pc = "prompt" /\ nLines > 0) =>
        /\ Len(printed) = Len(CreatedSeq)
        /\ \A s \in Created :
            /\ WaitsFor(s) = 1
            /\ cpc[s] = "reaped"
            /\ Cardinality(LinesFor(s)) = 1
            /\ \A k \in LinesFor(s) :
                   printed[k] = StatusLine([pid |-> s, st |-> cstatus[s]])
        /\ \A s \in Stages \ Created : cpc[s] = "absent"

\* Back at the prompt after a pipeline one of whose children was killed by a
\* signal and another exited.
C7_Witness ==
    /\ pc = "prompt"
    /\ N >= 2
    /\ Len(printed) >= 2
    /\ \E k \in 1 .. Len(printed) : printed[k].msg = "signal"
    /\ \E k \in 1 .. Len(printed) : printed[k].msg = "terminated"

\* C8: a pipeline stage whose Command carries an input path and that has a
\* pipe on its standard input calls exec with the pipe's read end on
\* descriptor 0; a non-last stage whose Command carries an output path calls
\* exec with its pipe's write end on descriptor 1.
C8_PipeBeatsFile ==
    N >= 2 =>
        \A s \in 0 .. N - 1 :
            (Execd(s) /\ ForksOkUpTo(s)) =>
                /\ (s > 0 /\ line[s + 1].input_file # NoPath) => execSnap[s][0] = PipeStdin(s)
                /\ (s < N - 1 /\ line[s + 1].output_file # NoPath) => execSnap[s][1] = PipeStdout(s)

\* C9: a child that failed on its way to exec (open, create, dup2 or execvp) has
\* terminated with a non-zero exit status, is never back in the shell's loop,
\* and the status line the shell prints for it shows that status.
C9_FailedLaunchExits ==
    \A s \in Stages :
        cfail[s] =>
            /\ Terminated(s)
            /\ cpc[s] # "shell_loop"
            /\ cstatus[s].t = "Exited"
            /\ cstatus[s].code # 0
            /\ \A k \in LinesFor(s) : printed[k].msg = "terminated" /\ printed[k].val # 0
            /\ pc = "prompt" => LinesFor(s) # {}

\* A pipeline stage that failed on its way to exec, reported at the prompt.
C9_Witness ==
    /\ pc = "prompt"
    /\ \E s \in Stages : cfail[s] /\ LinesFor(s) # {} /\ N >= 2

\* Stage s failed: on its way to exec, or its program exited non-zero.
StageFailed(s) == cfail[s] \/ (cstatus[s].t = "Exited" /\ cstatus[s].code # 0)

\* C10: in a pipeline one of whose stages failed, every other stage that was
\* forked and reached exec has the pipe wiring of its position; the shell has
\* not panicked unless a waitpid failed; and when handle_pipes is back at the
\* prompt it has forked every stage it attempted successfully and printed one
\* status line per created child, in creation order, each showing that
\* child's own status, the failed stage's being non-zero.
C10_FailureIsolation ==
    (N >= 2 /\ \E f \in 0 .. N - 1 : StageFailed(f)) =>
        /\ \A s \in 0 .. N - 1 :
            (Execd(s) /\ ForksOkUpTo(s) /\ line[s + 1] = Plain) =>
                /\ execSnap[s][0] = PipeStdin(s)
                /\ execSnap[s][1] = PipeStdout(s)
        /\ pc = "crashed" => trace[Len(trace)].e = "waiterr"
        /\ pc = "prompt" =>
            /\ Len(printed) = Len(CreatedSeq)
            /\ AllForksOk => Len(printed) = N
            /\ \A k \in 1 .. Len(printed) :
                /\ printed[k] = StatusLine([pid |-> CreatedSeq[k].s, st |-> cstatus[CreatedSeq[k].s]])
                /\ StageFailed(CreatedSeq[k].s) =>
                       printed[k].msg = "terminated" /\ printed[k].val # 0

\* "false | echo ok": the first stage failed, the second exited 0 wired to the
\* first stage's pipe, and both statuses are printed.
C10_Witness ==
    /\ pc = "prompt"
    /\ N = 2
    /\ AllForksOk
    /\ StageFailed(0)
    /\ Execd(1)
    /\ cstatus[1] = Exited(0)
    /\ Len(printed) = 2
    /\ printed[1].val # 0
    /\ printed[2].val = 0

\* ==== the line parser and main's loop (main.rs:30-218) =====================

\* The text a user types, piece by piece: program names, blanks, the pipe
\* character, redirection operators set off by blanks, and a bare '<'.
ExitStr == << "e", "x", "i", "t" >>
CdStr == << "c", "d" >>
Lt == << "<" >>
Gt == << ">" >>
RootDir == << "/" >>
Pieces ==
    { << "x" >>, CdStr, ExitStr, << " " >>, << "|" >>,
      << " ", "<", " " >>, << " ", ">", " " >>, Lt }

\* char::is_whitespace, for the characters a line can hold
Whitespace == {" ", "\n"}
IsSpace(c) == c \in Whitespace

\* str::trim_start, str::trim_end, str::trim
RECURSIVE TrimStart(_)
TrimStart(s) == IF s = << >> \/ ~IsSpace(Head(s)) THEN s ELSE TrimStart(Tail(s))

RECURSIVE TrimEnd(_)
TrimEnd(s) ==
    IF s = << >> \/ ~IsSpace(s[Len(s)]) THEN s ELSE TrimEnd(SubSeq(s, 1, Len(s) - 1))

Trim(s) == TrimEnd(TrimStart(s))

\* The first index of s holding a character of C, Len(s) + 1 when there is none.
FirstIn(s, C) ==
    IF \E k \in 1 .. Len(s) : s[k] \in C
    THEN CHOOSE k \in 1 .. Len(s) : s[k] \in C /\ \A j \in 1 .. (k - 1) : s[j] \notin C
    ELSE Len(s) + 1

\* str::split(c): the pieces between occurrences of c, empty ones included.
RECURSIVE Split(_, _)
Split(s, c) ==
    LET k == FirstIn(s, {c})
    IN IF k > Len(s) THEN << s >>
       ELSE << SubSeq(s, 1, k - 1) >> \o Split(SubSeq(s, k + 1, Len(s)), c)

\* str::split_whitespace: the maximal runs of non-blank characters.
RECURSIVE SplitWhitespace(_)
SplitWhitespace(s) ==
    LET t == TrimStart(s)
        k == FirstIn(t, Whitespace)
    IN IF t = << >> THEN << >>
       ELSE << SubSeq(t, 1, k - 1) >> \o SplitWhitespace(SubSeq(t, k, Len(t)))

\* str::starts_with
StartsWith(s, p) == Len(s) >= Len(p) /\ SubSeq(s, 1, Len(p)) = p

\* Vec::push
PushFront(v, x) == << x >> \o v
Push(v, x) == Append(v, x)

\* ---- parse_redir_command (main.rs:30-88) ---------------------------------
\* Its result: Option<Command> (ok, cmd) and what it wrote to stderr (msgs).
NoCommand == Command(NoneStr, << >>, NoneStr, NoneStr)
SomeCommand(cmd) == [ok |-> TRUE, cmd |-> cmd, msgs |-> << >>]
NoneCommand == [ok |-> FALSE, cmd |-> NoCommand, msgs |-> << >>]

\* main.rs:50-51, 59-60: eprintln!("Syntax error: ...") and return None.
SyntaxErrorSilent(op) == NoneCommand
SyntaxError(op) ==
    [NoneCommand EXCEPT !.msgs =
        << IF op = Lt THEN "Syntax error: no input file after '<'"
                      ELSE "Syntax error: no output file after '>'" >>]

\* main.rs:78-87: no program, no Command.
FinishAlways(cmd) == SomeCommand(cmd)
Finish(cmd) == IF cmd.program = << >> THEN NoneCommand ELSE SomeCommand(cmd)

\* main.rs:42-76: the while loop over the tokens, from the token at index k.
RECURSIVE Scan(_, _, _)
Scan(tokens, k, cmd) ==
    IF k > Len(tokens) THEN Finish(cmd)
    ELSE IF tokens[k] = Lt
    THEN IF k + 1 <= Len(tokens)
         THEN Scan(tokens, k + 2, [cmd EXCEPT !.input_file = tokens[k + 1]])
         ELSE SyntaxError(Lt)
    ELSE IF tokens[k] = Gt
    THEN IF k + 1 <= Len(tokens)
         THEN Scan(tokens, k + 2, [cmd EXCEPT !.output_file = tokens[k + 1]])
         ELSE SyntaxError(Gt)
    ELSE IF cmd.program = << >>
    THEN Scan(tokens, k + 1, [cmd EXCEPT !.program = tokens[k]])
    ELSE Scan(tokens, k + 1, [cmd EXCEPT !.args = Push(@, tokens[k])])

parse_redir_command(input) ==
    LET tokens == SplitWhitespace(Trim(input))
    IN IF tokens = << >> THEN NoneCommand ELSE Scan(tokens, 1, NoCommand)

\* ---- parse_input (main.rs:90-136) ----------------------------------------
\* main.rs:98: the filter of the segments.
KeepAll(s) == TRUE
NonEmpty(s) == s # << >>

\* main.rs:98: split on '|', trim each segment, drop the empty ones.
Pipeline(input) ==
    LET segs == Split(input, "|")
    IN SelectSeq([k \in 1 .. Len(segs) |-> Trim(segs[k])], NonEmpty)

\* main.rs:106-120: the variant chosen for a single Command.
ShapeForSwapped(cmd) ==
    IF cmd.input_file # NoneStr /\ cmd.output_file = NoneStr
    THEN InputType("OutputRedirect", << cmd >>, NoneStr, cmd.input_file)
    ELSE IF cmd.input_file = NoneStr /\ cmd.output_file # NoneStr
    THEN InputType("InputRedirect", << cmd >>, cmd.output_file, NoneStr)
    ELSE IF cmd.input_file # NoneStr /\ cmd.output_file # NoneStr
    THEN InputType("BiRedirect", << cmd >>, cmd.input_file, cmd.output_file)
    ELSE InputType("SingleCommand", << cmd >>, NoneStr, NoneStr)

ShapeFor(cmd) ==
    IF cmd.input_file # NoneStr /\ cmd.output_file = NoneStr
    THEN InputType("InputRedirect", << cmd >>, cmd.input_file, NoneStr)
    ELSE IF cmd.input_file = NoneStr /\ cmd.output_file # NoneStr
    THEN InputType("OutputRedirect", << cmd >>, NoneStr, cmd.output_file)
    ELSE IF cmd.input_file # NoneStr /\ cmd.output_file # NoneStr
    THEN InputType("BiRedirect", << cmd >>, cmd.input_file, cmd.output_file)
    ELSE InputType("SingleCommand", << cmd >>, NoneStr, NoneStr)

\* main.rs:124-131: the for loop over the segments, from segment k; the `?`
\* returns None at the first segment that yields no Command.
RECURSIVE ParseSegments(_, _, _)
ParseSegments(pipeline, k, commands) ==
    IF k > Len(pipeline) THEN [parsed |-> InputType("Pipe", commands, NoneStr, NoneStr), msgs |-> << >>]
    ELSE LET pr == parse_redir_command(pipeline[k])
         IN IF pr.ok THEN ParseSegments(pipeline, k + 1, Push(commands, pr.cmd))
            ELSE [parsed |-> NoInput, msgs |-> pr.msgs]

\* Its result: Option<InputType> (parsed) and what went to stderr (msgs).
parse_input(raw) ==
    LET input == Trim(raw)
        pipeline == Pipeline(input)
    IN IF input = << >> THEN [parsed |-> NoInput, msgs |-> << >>]
       ELSE IF pipeline = << >> THEN [parsed |-> NoInput, msgs |-> << >>]
       ELSE IF Len(pipeline) = 1
       THEN LET pr == parse_redir_command(pipeline[1])
            IN IF pr.ok THEN [parsed |-> ShapeFor(pr.cmd), msgs |-> << >>]
               ELSE [parsed |-> NoInput, msgs |-> pr.msgs]
       ELSE ParseSegments(pipeline, 1, << >>)

\* ---- main (main.rs:163-218) ----------------------------------------------
\* main.rs:169-172: the line read_line returns, trimmed.
Input == Trim(typed \o << "\n" >>)

\* The user types one more piece of the line.
TypePiece ==
    /\ ppc = "typing"
    /\ nTyped < MaxPieces
    /\ \E p \in Pieces : typed' = typed \o p
    /\ nTyped' = nTyped + 1
    /\ UNCHANGED << execVars, ppc, turn >>

\* main.rs:174-177: the line is exactly "exit": break.
MainExit ==
    /\ ppc = "typing"
    /\ Input = ExitStr
    /\ turn' = [NoOutcome EXCEPT !.kind = "exit"]
    /\ ppc' = "exited"
    /\ UNCHANGED << execVars, typed, nTyped >>

\* main.rs:180-188: the line starts with "cd": set_current_dir and continue.
MainCd ==
    /\ ppc = "typing"
    /\ Input # ExitStr
    /\ StartsWith(Input, CdStr)
    /\ LET parts == SplitWhitespace(Input)
           new_dir == IF Len(parts) >= 2 THEN parts[2] ELSE RootDir
       IN turn' = [NoOutcome EXCEPT !.kind = "cd", !.chdir = new_dir]
    /\ ppc' = "done"
    /\ UNCHANGED << execVars, typed, nTyped >>

\* main.rs:192-214: the handler called for a parsed line and the two file
\* arguments it is given.
Dispatch(parsed) ==
    IF parsed.shape = "Pipe"
    THEN [handler |-> "handle_pipes", hin |-> NoneStr, hout |-> NoneStr]
    ELSE [handler |-> "handle_single_command", hin |-> parsed.inf, hout |-> parsed.outf]

\* main.rs:190-216: any other line goes to parse_input, and what it returns
\* to the handler of its variant.
MainParse ==
    /\ ppc = "typing"
    /\ Input # ExitStr
    /\ ~StartsWith(Input, CdStr)
    /\ LET res == parse_input(Input)
       IN turn' = IF res.parsed = NoInput
                  THEN [NoOutcome EXCEPT !.kind = "none", !.msgs = res.msgs]
                  ELSE [kind |-> "run", chdir |-> NoneStr, parsed |-> res.parsed,
                        msgs |-> res.msgs,
                        handler |-> Dispatch(res.parsed).handler,
                        hin |-> Dispatch(res.parsed).hin,
                        hout |-> Dispatch(res.parsed).hout]
    /\ ppc' = "done"
    /\ UNCHANGED << execVars, typed, nTyped >>

\* main.rs:165-168: back at the top of the loop, the next prompt.
NextPrompt ==
    /\ ppc = "done"
    /\ ppc' = "typing"
    /\ typed' = << >>
    /\ nTyped' = 0
    /\ turn' = NoOutcome
    /\ UNCHANGED execVars

ParseNext ==
    \/ TypePiece
    \/ MainExit
    \/ MainCd
    \/ MainParse
    \/ NextPrompt

ParseSpec == Init /\ [][ParseNext]_vars

\* ---- properties of the failure paths, the parser and main -----------------
\* C11: when fork fails for stage s of a pipeline, no later stage is launched
\* (no fork is even attempted for it), the shell does not crash on the
\* failure, and the children created before it are waited on and reported.
C11_ForkFailureAborts ==
    \A s \in Stages :
        ForkFailed(s) =>
            /\ \A q \in Stages : q > s => ~ForkedOk(q) /\ ~ForkFailed(q)
            /\ (pc = "prompt" => \A q \in Created : WaitsFor(q) = 1 /\ LinesFor(q) # {})

\* C12: when waitpid fails, the failure is reported and the shell goes on to
\* the next prompt: it is never gone after a failed wait, on either path.
C12_WaitFailureContinues ==
    (\E k \in 1 .. Len(trace) : trace[k].e = "waiterr") => pc # "crashed"

\* ---- vocabulary of the parser properties ---------------------------------
\* main has handed the line it read to parse_input.
ParsedTurn == ppc = "done" /\ turn.kind \in {"run", "none"}

Tokens == SplitWhitespace(Input)

\* The segments of the line that are not empty after trimming.
Remaining ==
    LET segs == Split(Input, "|")
    IN SelectSeq([k \in 1 .. Len(segs) |-> Trim(segs[k])], LAMBDA s : s # << >>)

\* Token k is a redirection operator: a '<' or '>' that is not itself the
\* token consumed by the operator before it.
RECURSIVE IsOperator(_, _)
IsOperator(toks, k) == toks[k] \in {Lt, Gt} /\ (k = 1 \/ ~IsOperator(toks, k - 1))

IsTarget(toks, k) == k > 1 /\ IsOperator(toks, k - 1)

\* The tokens that are neither operators nor targets, in order.
RECURSIVE WordsFrom(_, _)
WordsFrom(toks, k) ==
    IF k > Len(toks) THEN << >>
    ELSE IF IsOperator(toks, k) \/ IsTarget(toks, k) THEN WordsFrom(toks, k + 1)
    ELSE << toks[k] >> \o WordsFrom(toks, k + 1)

Words(toks) == WordsFrom(toks, 1)

\* The token following the last operator op, NoneStr when there is none.
LastTarget(toks, op) ==
    LET ops == { k \in 1 .. (Len(toks) - 1) : IsOperator(toks, k) /\ toks[k] = op }
    IN IF ops = {} THEN NoneStr
       ELSE toks[(CHOOSE k \in ops : \A j \in ops : j <= k) + 1]

\* The segment ends with an operator that has no token after it.
Dangling(seg) ==
    LET toks == SplitWhitespace(seg)
    IN toks # << >> /\ IsOperator(toks, Len(toks))

SingleShapes == {"SingleCommand", "InputRedirect", "OutputRedirect", "BiRedirect"}

\* C13: a line with at least one token, no '|' character and no '<' or '>'
\* token parses to SingleCommand: program is the first token, args are the
\* remaining tokens in their order, and no file is recorded.
C13_PlainLine ==
    (/\ ParsedTurn
     /\ Tokens # << >>
     /\ \A k \in 1 .. Len(Input) : Input[k] # "|"
     /\ \A k \in 1 .. Len(Tokens) : Tokens[k] \notin {Lt, Gt})
    => /\ turn.kind = "run"
       /\ turn.parsed = InputType("SingleCommand",
                                  << Command(Head(Tokens), Tail(Tokens), NoneStr, NoneStr) >>,
                                  NoneStr, NoneStr)

\* A plain line with two different arguments has been parsed.
C13_Witness ==
    /\ ParsedTurn
    /\ \A k \in 1 .. Len(Input) : Input[k] # "|"
    /\ \A k \in 1 .. Len(Tokens) : Tokens[k] \notin {Lt, Gt}
    /\ Len(Tokens) = 3
    /\ Tokens[2] # Tokens[3]
    /\ turn.parsed.shape = "SingleCommand"

\* The Commands the remaining segments parse to, one by one.
SegmentsParse == \A k \in 1 .. Len(Remaining) : parse_redir_command(Remaining[k]).ok
SegmentCommands == [k \in 1 .. Len(Remaining) |-> parse_redir_command(Remaining[k]).cmd]

\* C14 (as stated): after splitting on '|' and dropping the segments that
\* are empty once trimmed, no segment gives absent, exactly one segment gives
\* a single-command shape, and k >= 2 segments that each parse to a Command
\* give Pipe with those k Commands in order.
C14_AsStated ==
    ParsedTurn =>
        /\ Len(Remaining) = 0 => turn.parsed = NoInput
        /\ Len(Remaining) = 1 => turn.parsed.shape \in SingleShapes
        /\ (Len(Remaining) >= 2 /\ SegmentsParse) =>
               turn.parsed = InputType("Pipe", SegmentCommands, NoneStr, NoneStr)

\* C14 (amended): the same, except that exactly one remaining segment gives a
\* single-command shape holding its Command only when that segment parses to
\* a Command, and gives absent when it does not.
C14_SegmentCount ==
    ParsedTurn =>
        /\ Len(Remaining) = 0 => turn.parsed = NoInput
        /\ (Len(Remaining) = 1 /\ SegmentsParse) =>
               /\ turn.parsed.shape \in SingleShapes
               /\ turn.parsed.cmds = SegmentCommands
        /\ (Len(Remaining) = 1 /\ ~SegmentsParse) => turn.parsed = NoInput
        /\ (Len(Remaining) >= 2 /\ SegmentsParse) =>
               turn.parsed = InputType("Pipe", SegmentCommands, NoneStr, NoneStr)

\* A line with an empty middle segment has been parsed to a Pipe of two
\* different Commands.
C14_Witness ==
    /\ ParsedTurn
    /\ Len(Split(Input, "|")) = 3
    /\ Len(Remaining) = 2
    /\ turn.parsed.shape = "Pipe"
    /\ Len(turn.parsed.cmds) = 2
    /\ turn.parsed.cmds[1] # turn.parsed.cmds[2]

FirstDangling ==
    LET ks == { k \in 1 .. Len(Remaining) : Dangling(Remaining[k]) }
    IN IF ks = {} THEN 0 ELSE CHOOSE k \in ks : \A j \in ks : k <= j

EndsWithOperatorToken(seg) ==
    LET toks == SplitWhitespace(seg)
    IN toks # << >> /\ toks[Len(toks)] \in {Lt, Gt}

SyntaxMessages ==
    { "Syntax error: no input file after '<'", "Syntax error: no output file after '>'" }

C17_BuiltinsNeverCommands ==
    \A k \in 1 .. Len(turn.parsed.cmds) :
        turn.parsed.cmds[k].program \notin {ExitStr, CdStr}

\* The segment is made only of redirection operators and their targets.
OnlyRedirections(seg) ==
    LET toks == SplitWhitespace(seg)
    IN toks # << >> /\ Words(toks) = << >>

\* C18: every Command the parser produces has a non-empty program, every
\* Pipe holds at least 2 Commands, and a line with a segment made only of
\* redirection operators and their targets yields no Command at all.
C18_ProgramNonEmpty ==
    ParsedTurn =>
        /\ \A k \in 1 .. Len(turn.parsed.cmds) : turn.parsed.cmds[k].program # << >>
        /\ turn.parsed.shape = "Pipe" => Len(turn.parsed.cmds) >= 2
        /\ turn.kind = "run" => Len(turn.parsed.cmds) >= 1
        /\ (\E k \in 1 .. Len(Remaining) : OnlyRedirections(Remaining[k])) =>
               turn.parsed = NoInput /\ turn.kind = "none"

\* A line that is a complete redirection and nothing else has been parsed,
\* with no syntax error raised.
C18_Witness ==
    /\ ParsedTurn
    /\ Len(Remaining) = 1
    /\ OnlyRedirections(Remaining[1])
    /\ ~Dangling(Remaining[1])
    /\ turn.kind = "none"
    /\ turn.msgs = << >>

\* C20: a line is handled as cd only when its first token is exactly "cd";
\* a line whose first token merely begins with "cd" goes to parse_input and
\* set_current_dir is not called for it.
C20_CdExactToken ==
    (ppc = "done" /\ Tokens # << >> /\ Head(Tokens) # CdStr) =>
        /\ turn.kind \in {"run", "none"}
        /\ turn.chdir = NoneStr

\* C19: whatever lines are executed, descriptors 0 and 1 of the shell stay
\* the terminal it started with and the shell never holds a redirection
\* file: dup2 onto 0 or 1 and the opening of files happen only in children.
C19_ParentStdioUntouched ==
    SessionAlive =>
        /\ fdt[0] = Tty(0)
        /\ fdt[1] = Tty(1)
        /\ \A fd \in Fds : fdt[fd].k # "file"

\* The shell is back at the prompt after a pipeline in which a child ran
\* with a pipe as its stdin and a file as its stdout.
C19_Witness ==
    /\ pc = "prompt"
    /\ nLines >= 1
    /\ \E s \in Stages :
          /\ cpc[s] = "reaped"
          /\ execSnap[s][0].k = "r"
          /\ execSnap[s][1].k = "file"

====
